---- MODULE Spec2Model ----
(***************************************************************************)
(* A model of the scaled Dirichlet preconditioner builder                  *)
(* (src/src/gsIeti/gsScaledDirichletPrec.h, .hpp) and of the BiCGStab      *)
(* iteration (src/src/gsSolver/gsBiCgStab.hpp) of G+Smo.                   *)
(*                                                                         *)
(* Numbers.  The code computes in a floating point type T.  The model      *)
(* computes exactly, in the rationals extended by +inf, -inf and NaN, so   *)
(* that a division by zero has the outcome it has in IEEE arithmetic and   *)
(* does not stop the model.  A number is a pair <<n, d>> in lowest terms   *)
(* with d >= 0: d > 0 is the rational n/d, <<1,0>> is +inf, <<-1,0>> is    *)
(* -inf and <<0,0>> is NaN.  Rounding and the sign of zero are not         *)
(* modelled.                                                               *)
(***************************************************************************)
EXTENDS Integers, Sequences, FiniteSets, TLC

\* ------------------------------------------------------------------------
\* Extended rational arithmetic (the scalar type T)
\* ------------------------------------------------------------------------

AbsInt(n) == IF n < 0 THEN -n ELSE n

SignInt(n) == IF n < 0 THEN -1 ELSE IF n > 0 THEN 1 ELSE 0

RECURSIVE GCD(_, _)
GCD(a, b) == IF b = 0 THEN a ELSE GCD(b, a % b)

\* <<n, d>> (d >= 0) in lowest terms
Norm(n, d) ==
    IF d = 0 THEN <<SignInt(n), 0>>
    ELSE LET g == GCD(AbsInt(n), d) IN <<n \div g, d \div g>>

Rat(n) == <<n, 1>>
Zero == <<0, 1>>
One == <<1, 1>>
NaN == <<0, 0>>

IsNaN(a) == a[1] = 0 /\ a[2] = 0
IsFinite(a) == a[2] > 0
IsZero(a) == a[1] = 0 /\ a[2] > 0

Neg(a) == <<-a[1], a[2]>>

Abs(a) == <<AbsInt(a[1]), a[2]>>

Add(a, b) ==
    IF IsNaN(a) \/ IsNaN(b) THEN NaN
    ELSE IF a[2] = 0 /\ b[2] = 0 THEN (IF a[1] = b[1] THEN a ELSE NaN)
    ELSE IF a[2] = 0 THEN a
    ELSE IF b[2] = 0 THEN b
    ELSE LET g == GCD(a[2], b[2])
         IN  Norm(a[1] * (b[2] \div g) + b[1] * (a[2] \div g),
                  (a[2] \div g) * b[2])

Sub(a, b) == Add(a, Neg(b))

\* the common factors are cancelled before the products are formed
Mul(a, b) ==
    IF a[2] = 0 \/ b[2] = 0 THEN Norm(a[1] * b[1], 0)
    ELSE LET g1 == GCD(AbsInt(a[1]), b[2])
             g2 == GCD(AbsInt(b[1]), a[2])
         IN  Norm((a[1] \div g1) * (b[1] \div g2),
                  (a[2] \div g2) * (b[2] \div g1))

\* 1/a: 1/0 is +inf, 1/inf is 0, 1/NaN is NaN
Recip(a) ==
    IF a[1] > 0 THEN <<a[2], a[1]>>
    ELSE IF a[1] < 0 THEN <<-a[2], -a[1]>>
    ELSE IF a[2] > 0 THEN <<1, 0>>
    ELSE NaN

Div(a, b) == Mul(a, Recip(b))

\* a < b; false when either side is NaN
Lt(a, b) ==
    IF IsNaN(a) \/ IsNaN(b) THEN FALSE
    ELSE IF a[2] = 0 /\ b[2] = 0 THEN a[1] < b[1]
    ELSE IF a[2] = 0 THEN a[1] < 0
    ELSE IF b[2] = 0 THEN b[1] > 0
    ELSE IF a[1] <= 0 /\ b[1] >= 0 THEN a[1] < 0 \/ b[1] > 0
    ELSE IF a[1] >= 0 /\ b[1] <= 0 THEN FALSE
    ELSE LET g == GCD(a[2], b[2])
             h == GCD(AbsInt(a[1]), AbsInt(b[1]))
         IN  (a[1] \div h) * (b[2] \div g) < (b[1] \div h) * (a[2] \div g)

\* ------------------------------------------------------------------------
\* Vectors and dense matrices over T (gsMatrix<T>); a matrix is the
\* sequence of its rows
\* ------------------------------------------------------------------------

RECURSIVE SumTo(_, _)
SumTo(f, k) == IF k = 0 THEN Zero ELSE Add(SumTo(f, k - 1), f[k])

Dot(u, v) == SumTo([i \in 1..Len(u) |-> Mul(u[i], v[i])], Len(u))

VAdd(u, v) == [i \in 1..Len(u) |-> Add(u[i], v[i])]
VSub(u, v) == [i \in 1..Len(u) |-> Sub(u[i], v[i])]
VScale(a, u) == [i \in 1..Len(u) |-> Mul(a, u[i])]
VZero(n) == [i \in 1..n |-> Zero]
VRat(u) == [i \in 1..Len(u) |-> Rat(u[i])]

MatVec(M, u) == [i \in 1..Len(M) |-> Dot(M[i], u)]
MRat(M) == [i \in 1..Len(M) |-> VRat(M[i])]

\* The entries of the vectors tried
VecEntries == {-1, 0, 1}

\* ------------------------------------------------------------------------
\* Sparse matrices (gsSparseMatrix<T>): rows, cols and the values.  The
\* stored entries, the ones an InnerIterator visits, are the nonzero values:
\* the matrices hold no explicitly stored zero.  Indices are 0-based, as in
\* the code; val is a sequence of rows, so entry (r, c) is val[r + 1][c + 1].
\* ------------------------------------------------------------------------

SpMat(D) == [rows |-> Len(D), cols |-> Len(D[1]), val |-> MRat(D)]

At(M, r, c) == M.val[r + 1][c + 1]

Stored(M, r, c) == ~IsZero(At(M, r, c))

RECURSIVE SumSet(_, _)
SumSet(f, S) ==
    IF S = {} THEN Zero
    ELSE LET e == CHOOSE e \in S : TRUE IN Add(f[e], SumSet(f, S \ {e}))

RECURSIVE SortedSeq(_)
SortedSeq(S) ==
    IF S = {} THEN <<>>
    ELSE LET m == CHOOSE m \in S : \A e \in S : m <= e
         IN  <<m>> \o SortedSeq(S \ {m})

Transpose(M) ==
    [rows |-> M.cols, cols |-> M.rows,
     val |-> [j \in 1..M.cols |-> [i \in 1..M.rows |-> M.val[i][j]]]]

\* The determinant, by expansion along the first row; 1 for the 0x0 matrix
Minor(V, i, j) ==
    [a \in 1..(Len(V) - 1) |->
        [b \in 1..(Len(V) - 1) |->
            V[IF a < i THEN a ELSE a + 1][IF b < j THEN b ELSE b + 1]]]

RECURSIVE Det(_)
Det(V) ==
    IF Len(V) = 0 THEN One
    ELSE SumTo([j \in 1..Len(V) |->
                  Mul(IF j % 2 = 1 THEN V[1][j] ELSE Neg(V[1][j]),
                      Det(Minor(V, 1, j)))], Len(V))

\* The inverse of a nonsingular square matrix, by cofactors
Inverse(V) ==
    [i \in 1..Len(V) |->
        [j \in 1..Len(V) |->
            Div(IF (i + j) % 2 = 0 THEN Det(Minor(V, j, i))
                ELSE Neg(Det(Minor(V, j, i))), Det(V))]]

\* ------------------------------------------------------------------------
\* Linear operators (gsLinearOperator<T>) and their composites
\* ------------------------------------------------------------------------

\* makeMatrixOp(A): the operator x |-> A x
MakeMatrixOp(A) == [kind |-> "matrix", mat |-> A]

\* makeSparseCholeskySolver(A): the operator x |-> A^-1 x
MakeSparseCholeskySolver(A) == [kind |-> "solver", mat |-> A]

\* gsSumOp<T>::make(A, B)
MakeSumOp(A, B) == [kind |-> "sum", ops |-> <<A, B>>]

\* gsProductOp<T>::make(...) and addOperator: ops in the order given
MakeProductOp(ops) == [kind |-> "product", ops |-> ops]

\* gsAdditiveOp<T>: the transfer matrices and the operators, in the order of
\* the addOperator calls
MakeAdditiveOp(transfers, ops) ==
    [kind |-> "additive", transfers |-> transfers, ops |-> ops]

\* The order in which a product applies its operands.  The code builds the
\* product of schurComplement by make(A10, solver, A01) and the spec writes the
\* same operator Product(A01, solver, A10), "applied right to left": the first
\* operand given to make or addOperator is the first one applied.
ProductOrder(ops) == ops

RECURSIVE Rows(_), Cols(_), Compatible(_), Apply(_, _), ApplyInOrder(_, _, _)

Rows(op) ==
    CASE op.kind = "matrix" -> op.mat.rows
      [] op.kind = "solver" -> op.mat.rows
      [] op.kind = "sum" -> Rows(op.ops[1])
      [] op.kind = "product" ->
            Rows(ProductOrder(op.ops)[Len(op.ops)])
      [] op.kind = "additive" ->
            IF Len(op.ops) = 0 THEN 0 ELSE op.transfers[1].rows

Cols(op) ==
    CASE op.kind = "matrix" -> op.mat.cols
      [] op.kind = "solver" -> op.mat.cols
      [] op.kind = "sum" -> Cols(op.ops[1])
      [] op.kind = "product" -> Cols(ProductOrder(op.ops)[1])
      [] op.kind = "additive" ->
            IF Len(op.ops) = 0 THEN 0 ELSE op.transfers[1].rows

\* Every stage takes what the stage before it gives
Compatible(op) ==
    CASE op.kind = "matrix" -> TRUE
      [] op.kind = "solver" -> op.mat.rows = op.mat.cols
      [] op.kind = "sum" ->
            /\ \A i \in 1..Len(op.ops) : Compatible(op.ops[i])
            /\ \A i \in 1..Len(op.ops) :
                  /\ Rows(op.ops[i]) = Rows(op.ops[1])
                  /\ Cols(op.ops[i]) = Cols(op.ops[1])
      [] op.kind = "product" ->
            LET o == ProductOrder(op.ops) IN
            /\ Len(o) > 0
            /\ \A i \in 1..Len(o) : Compatible(o[i])
            /\ \A i \in 1..(Len(o) - 1) : Rows(o[i]) = Cols(o[i + 1])
      [] op.kind = "additive" ->
            /\ Len(op.ops) > 0
            /\ \A k \in 1..Len(op.ops) :
                  /\ Compatible(op.ops[k])
                  /\ op.transfers[k].rows = op.transfers[1].rows
                  /\ Cols(op.ops[k]) = op.transfers[k].cols
                  /\ Rows(op.ops[k]) = op.transfers[k].cols

\* the operators o[i], o[i+1], ... applied one after the other
ApplyInOrder(o, i, u) ==
    IF i > Len(o) THEN u ELSE ApplyInOrder(o, i + 1, Apply(o[i], u))

\* op.apply(u), for a compatible op and Len(u) = Cols(op)
Apply(op, u) ==
    CASE op.kind = "matrix" -> MatVec(op.mat.val, u)
      [] op.kind = "solver" -> MatVec(Inverse(op.mat.val), u)
      [] op.kind = "sum" -> VAdd(Apply(op.ops[1], u), Apply(op.ops[2], u))
      [] op.kind = "product" -> ApplyInOrder(ProductOrder(op.ops), 1, u)
      [] op.kind = "additive" ->
            \* sum over k of T_k Op_k (T_k^T u): the class documentation
            \* of gsScaledDirichletPrec gives the operator built by
            \* addOperator(B_k, D_k^-1 S_k D_k^-1) as the sum of
            \* B_k D_k^-1 S_k D_k^-1 B_k^T
            LET term(k) ==
                    MatVec(op.transfers[k].val,
                           Apply(op.ops[k],
                                 MatVec(Transpose(op.transfers[k]).val, u)))
                part[k \in 0..Len(op.ops)] ==
                    IF k = 0 THEN VZero(Len(u)) ELSE VAdd(part[k - 1], term(k))
            IN  part[Len(op.ops)]

\* ------------------------------------------------------------------------
\* gsScaledDirichletPrec: the static helpers
\* ------------------------------------------------------------------------

\* C17 mutant: every column is taken, with or without an entry
getSkeletonDofsAllColumns(jm) ==
    SortedSeq(0..(jm.cols - 1))

\* getSkeletonDofs(jm): the columns with a stored entry, sorted, each once
getSkeletonDofs(jm) ==
    SortedSeq({c \in 0..(jm.cols - 1) :
                  \E r \in 0..(jm.rows - 1) : Stored(jm, r, c)})

\* C18 mutant: the new column of a dof is its rank among the dofs, whatever
\* the order they are given in
ReverseOfRanked(dofs, n) ==
    [c \in 0..(n - 1) |->
        IF \E i \in 1..Len(dofs) : dofs[i] = c
        THEN Cardinality({j \in 1..Len(dofs) : dofs[j] <= c})
        ELSE 0]

\* reverse[dofs[i]] = i+1, in a vector set to zero before; a later i wins
ReverseOf(dofs, n) ==
    [c \in 0..(n - 1) |->
        IF \E i \in 1..Len(dofs) : dofs[i] = c
        THEN CHOOSE i \in 1..Len(dofs) :
                /\ dofs[i] = c
                /\ \A j \in 1..Len(dofs) : dofs[j] = c => j <= i
        ELSE 0]

\* C19 mutant: the test reverse[col] > 1 in place of reverse[col] > 0
restrictJumpMatrixOffByOne(jm, dofs) ==
    LET reverse == ReverseOf(dofs, jm.cols)
        entry(r, j) ==
            SumSet([c \in 0..(jm.cols - 1) |-> At(jm, r, c)],
                   {c \in 0..(jm.cols - 1) :
                       Stored(jm, r, c) /\ reverse[c] > 1 /\ reverse[c] - 1 = j})
    IN  [rows |-> jm.rows, cols |-> Len(dofs),
         val |-> [r \in 1..jm.rows |->
                    [j \in 1..Len(dofs) |-> entry(r - 1, j - 1)]]]

\* restrictJumpMatrix(jm, dofs): the stored entries of the columns in dofs,
\* moved to column reverse[col]-1; setFrom adds up what lands on one place
restrictJumpMatrix(jm, dofs) ==
    LET reverse == ReverseOf(dofs, jm.cols)
        entry(r, j) ==
            SumSet([c \in 0..(jm.cols - 1) |-> At(jm, r, c)],
                   {c \in 0..(jm.cols - 1) :
                       Stored(jm, r, c) /\ reverse[c] > 0 /\ reverse[c] - 1 = j})
    IN  [rows |-> jm.rows, cols |-> Len(dofs),
         val |-> [r \in 1..jm.rows |->
                    [j \in 1..Len(dofs) |-> entry(r - 1, j - 1)]]]

\* C26 mutant: the other indices are numbered from the last one down
SchurReverseCountingDown(dofs, n) ==
    LET kept == ReverseOf(dofs, n)
    IN  [i \in 0..(n - 1) |->
            IF kept[i] # 0 THEN kept[i]
            ELSE -Cardinality({k \in i..(n - 1) : kept[k] = 0})]

\* The reverse vector of schurComplement: i+1 for dofs[i], and -1, -2, ...
\* for the other indices in ascending order
SchurReverse(dofs, n) ==
    LET kept == ReverseOf(dofs, n)
    IN  [i \in 0..(n - 1) |->
            IF kept[i] # 0 THEN kept[i]
            ELSE -Cardinality({k \in 0..i : kept[k] = 0})]

\* The sum of the stored entries of mat whose row has reverse value a and
\* whose column has reverse value b
BlockEntry(mat, reverse, a, b) ==
    LET places == {rc \in (0..(mat.rows - 1)) \X (0..(mat.cols - 1)) :
                      /\ Stored(mat, rc[1], rc[2])
                      /\ reverse[rc[1]] = a
                      /\ reverse[rc[2]] = b}
    IN  SumSet([rc \in places |-> At(mat, rc[1], rc[2])], places)

\* C20 mutant: the minus is put on A00 instead of A11
matrixBlocksMinusOnA00(mat, dofs) ==
    LET reverse == SchurReverse(dofs, mat.cols)
        sz == Len(dofs)
        rest == mat.rows - Len(dofs)
    IN  [A00 |-> [rows |-> sz, cols |-> sz,
                  val |-> [i \in 1..sz |-> [j \in 1..sz |->
                             Neg(BlockEntry(mat, reverse, i, j))]]],
         A10 |-> [rows |-> rest, cols |-> sz,
                  val |-> [i \in 1..rest |-> [j \in 1..sz |->
                             BlockEntry(mat, reverse, -i, j)]]],
         A01 |-> [rows |-> sz, cols |-> rest,
                  val |-> [i \in 1..sz |-> [j \in 1..rest |->
                             BlockEntry(mat, reverse, i, -j)]]],
         A11 |-> [rows |-> rest, cols |-> rest,
                  val |-> [i \in 1..rest |-> [j \in 1..rest |->
                             BlockEntry(mat, reverse, -i, -j)]]]]

\* The four blocks as schurComplement fills them; A11 is stored negated
\* ("Since we need a minus in the Schur complement")
matrixBlocks(mat, dofs) ==
    LET reverse == SchurReverse(dofs, mat.cols)
        sz == Len(dofs)
        rest == mat.rows - Len(dofs)
    IN  [A00 |-> [rows |-> sz, cols |-> sz,
                  val |-> [i \in 1..sz |-> [j \in 1..sz |->
                             BlockEntry(mat, reverse, i, j)]]],
         A10 |-> [rows |-> rest, cols |-> sz,
                  val |-> [i \in 1..rest |-> [j \in 1..sz |->
                             BlockEntry(mat, reverse, -i, j)]]],
         A01 |-> [rows |-> sz, cols |-> rest,
                  val |-> [i \in 1..sz |-> [j \in 1..rest |->
                             BlockEntry(mat, reverse, i, -j)]]],
         A11 |-> [rows |-> rest, cols |-> rest,
                  val |-> [i \in 1..rest |-> [j \in 1..rest |->
                             Neg(BlockEntry(mat, reverse, -i, -j))]]]]

\* C2 mutant: the operands passed in the opposite order
SchurProductOpsSwapped(blocks) ==
    <<MakeMatrixOp(blocks.A01),
      MakeSparseCholeskySolver(blocks.A11),
      MakeMatrixOp(blocks.A10)>>

\* The operands of the product, in the order the code passes them to
\* gsProductOp<T>::make
SchurProductOps(blocks) ==
    <<MakeMatrixOp(blocks.A10),
      MakeSparseCholeskySolver(blocks.A11),
      MakeMatrixOp(blocks.A01)>>

\* schurComplement(mat, dofs)
schurComplement(mat, dofs) ==
    LET blocks == matrixBlocks(mat, dofs)
    IN  MakeSumOp(MakeMatrixOp(blocks.A00),
                  MakeProductOp(SchurProductOps(blocks)))

\* C30 mutant: the Schur complement taken for all indices of the matrix
restrictToSkeletonUnrestrictedSchur(jm, mat) ==
    LET skeletonDofs == getSkeletonDofs(jm)
    IN  [jumpMatrix |-> restrictJumpMatrix(jm, skeletonDofs),
         localSchurOp |->
             schurComplement(mat, [i \in 1..mat.rows |-> i - 1])]

\* restrictToSkeleton(jm, mat): the pair addSubdomain takes
restrictToSkeleton(jm, mat) ==
    LET skeletonDofs == getSkeletonDofs(jm)
    IN  [jumpMatrix |-> restrictJumpMatrix(jm, skeletonDofs),
         localSchurOp |-> schurComplement(mat, skeletonDofs)]

\* ------------------------------------------------------------------------
\* schurComplement applied: the operator is built for a matrix and a list of
\* kept indices, then applied to a vector
\* ------------------------------------------------------------------------

\* The local matrices schurComplement is called with
SchurMats ==
    { SpMat(<<<<2, 1>>, <<1, 2>>>>),
      SpMat(<<<<2, -1, 0>>, <<-1, 2, -1>>, <<0, -1, 2>>>>),
      SpMat(<<<<2, 1, 0>>, <<3, 2, 1>>, <<0, 1, 4>>>>),
      SpMat(<<<<1, 1, 0>>, <<1, 1, 0>>, <<0, 0, 1>>>>) }

\* The lists of distinct indices below n, in every order, none empty
DofLists(n) ==
    {d \in UNION {[1..m -> 0..(n - 1)] : m \in 1..n} :
        \A i, j \in 1..Len(d) : i # j => d[i] # d[j]}

VARIABLES
    sc_mat,       \* the local matrix
    sc_dofs,      \* the kept indices, as given
    sc_x,         \* the vector the operator is applied to
    sc_op,        \* the operator schurComplement returned
    sc_y,         \* the result of the apply
    sc_pc,        \* idle, input, built, singular, applied, mismatch
    sc_nfact,     \* history: the calls of makeSparseCholeskySolver
    sc_prev       \* history: the vector and the result of the apply before

schurVars == <<sc_mat, sc_dofs, sc_x, sc_op, sc_y, sc_pc, sc_nfact, sc_prev>>

NoOp == [kind |-> "none"]

SchurIdle ==
    /\ sc_mat = SpMat(<<<<0>>>>) /\ sc_dofs = <<>> /\ sc_x = <<>>
    /\ sc_op = NoOp /\ sc_y = <<>> /\ sc_pc = "idle"
    /\ sc_nfact = 0 /\ sc_prev = <<>>

\* The vectors an operator with n columns is applied to
SchurInputs(n) == {VRat(v) : v \in [1..n -> VecEntries]}

\* A call of schurComplement(mat, dofs), with the vector its result is then
\* applied to
SchurCall ==
    /\ sc_pc = "idle"
    /\ sc_mat' \in SchurMats
    /\ sc_dofs' \in DofLists(sc_mat'.rows)
    /\ sc_x' \in SchurInputs(Len(sc_dofs'))
    /\ sc_pc' = "input"
    /\ UNCHANGED <<sc_op, sc_y, sc_nfact, sc_prev>>

\* The vectors of a second apply: the same vector again, and another one
SecondInputs(u) ==
    {u, [i \in 1..Len(u) |-> IF i = 1 THEN One ELSE Zero]}

\* makeSparseCholeskySolver(A11) computes the factorization when it is
\* called; the factorization of a singular block fails
FactorizationFails(A) == IsZero(Det(A.val))

\* C21 mutant: the operator is returned whatever the factorization did
SchurBuildDeferred ==
    /\ sc_pc = "input"
    /\ sc_nfact' = sc_nfact + 1
    /\ sc_op' = schurComplement(sc_mat, sc_dofs)
    /\ sc_pc' = "built"
    /\ UNCHANGED <<sc_mat, sc_dofs, sc_x, sc_y, sc_prev>>

\* schurComplement(mat, dofs): the solver for A11 is made inside the return
\* expression, so a failure of it leaves the call without a result
SchurBuild ==
    /\ sc_pc = "input"
    /\ sc_nfact' = sc_nfact + 1
    /\ IF FactorizationFails(matrixBlocks(sc_mat, sc_dofs).A11)
       THEN /\ sc_op' = NoOp
            /\ sc_pc' = "singular"
       ELSE /\ sc_op' = schurComplement(sc_mat, sc_dofs)
            /\ sc_pc' = "built"
    /\ UNCHANGED <<sc_mat, sc_dofs, sc_x, sc_y, sc_prev>>

\* op->apply(x, y), for the vector of the call and then once more.  An operator whose stages do not fit has no result: the matrix
\* product inside it is taken on mismatched sizes.
SchurApply ==
    /\ \/ sc_pc = "built" /\ sc_x' = sc_x /\ sc_prev' = sc_prev
       \/ /\ sc_pc = "applied" /\ sc_prev = <<>>
          /\ sc_x' \in SecondInputs(sc_x)
          /\ sc_prev' = <<sc_x, sc_y>>
    /\ IF Compatible(sc_op) /\ Cols(sc_op) = Len(sc_x')
       THEN /\ sc_y' = Apply(sc_op, sc_x')
            /\ sc_pc' = "applied"
       ELSE /\ sc_y' = <<>>
            /\ sc_pc' = "mismatch"
    /\ UNCHANGED <<sc_mat, sc_dofs, sc_op, sc_nfact>>

\* ------------------------------------------------------------------------
\* skeletonDofs and restrictJumpMatrix called on a jump matrix
\* ------------------------------------------------------------------------

\* The number of columns (local dofs) of the jump matrices below
JumpCols == 3

\* The jump matrices: two Lagrange multipliers, the first with entries 0 or 1
\* and the second with entries 0 or -1; the matrix without any entry and the
\* matrices with empty columns are among them
JumpMats ==
    {SpMat(<<r1, r2>>) : r1 \in [1..JumpCols -> {0, 1}],
                         r2 \in [1..JumpCols -> {0, -1}]}

VARIABLES
    jm_B,         \* the jump matrix
    jm_dofs,      \* the dofs given by the caller
    jm_skel,      \* what skeletonDofs returned
    jm_used,      \* the dofs restrictJumpMatrix was called with
    jm_R,         \* what restrictJumpMatrix returned
    jm_pc         \* idle, input, skeleton, restricted, skeletonRestricted

jumpVars == <<jm_B, jm_dofs, jm_skel, jm_used, jm_R, jm_pc>>

JumpIdle ==
    /\ jm_B = SpMat(<<<<0>>>>) /\ jm_dofs = <<>> /\ jm_skel = <<>>
    /\ jm_used = <<>> /\ jm_R = SpMat(<<<<0>>>>) /\ jm_pc = "idle"

\* A jump matrix and a list of its dofs are at hand
JumpCall ==
    /\ jm_pc = "idle"
    /\ jm_B' \in JumpMats
    /\ jm_dofs' \in DofLists(JumpCols)
    /\ jm_pc' = "input"
    /\ UNCHANGED <<jm_skel, jm_used, jm_R>>

\* skeletonDofs(jumpMatrix)
SkeletonDofs ==
    /\ jm_pc = "input"
    /\ jm_skel' = getSkeletonDofs(jm_B)
    /\ jm_pc' = "skeleton"
    /\ UNCHANGED <<jm_B, jm_dofs, jm_used, jm_R>>

\* restrictJumpMatrix(jumpMatrix, dofs) with the dofs of the caller
RestrictJumpMatrix ==
    /\ jm_pc = "skeleton"
    /\ jm_used' = jm_dofs
    /\ jm_R' = restrictJumpMatrix(jm_B, jm_dofs)
    /\ jm_pc' = "restricted"
    /\ UNCHANGED <<jm_B, jm_dofs, jm_skel>>

\* restrictJumpMatrix(jumpMatrix, skeletonDofs(jumpMatrix))
RestrictToSkeletonDofs ==
    /\ jm_pc = "skeleton"
    /\ jm_used' = jm_skel
    /\ jm_R' = restrictJumpMatrix(jm_B, jm_skel)
    /\ jm_pc' = "skeletonRestricted"
    /\ UNCHANGED <<jm_B, jm_dofs, jm_skel>>

\* ------------------------------------------------------------------------
\* gsScaledDirichletPrec: the builder object
\* ------------------------------------------------------------------------

\* The largest number of subdomains registered with one builder
MaxSub == 2

Laplace == SpMat(<<<<2, -1, 0>>, <<-1, 2, -1>>, <<0, -1, 2>>>>)

\* The jump matrices and local matrices restrictToSkeleton is called with
SkeletonSources ==
    { [jm |-> SpMat(<<<<0, 0, 1>>>>), mat |-> Laplace],
      [jm |-> SpMat(<<<<-1, 0, 0>>>>),
       mat |-> SpMat(<<<<2, 1, 0>>, <<3, 2, 1>>, <<0, 1, 4>>>>)],
      [jm |-> SpMat(<<<<1, 0, 0>>, <<0, 0, -1>>>>), mat |-> Laplace] }

\* The pairs addSubdomain is called with: a jump matrix restricted to the
\* skeleton and a local Schur operator of the size of its columns, given
\* directly as a matrix operator or made by restrictToSkeleton
SubdomainInputs ==
    { [jumpMatrix |-> SpMat(<<<<1>>>>),
       localSchurOp |-> MakeMatrixOp(SpMat(<<<<2>>>>))],
      [jumpMatrix |-> SpMat(<<<<1>>, <<0>>>>),
       localSchurOp |-> MakeMatrixOp(SpMat(<<<<2>>>>))],
      [jumpMatrix |-> SpMat(<<<<1, 0>>, <<-1, 1>>>>),
       localSchurOp |-> MakeMatrixOp(SpMat(<<<<2, 1>>, <<1, 2>>>>))] }
    \cup {restrictToSkeleton(s.jm, s.mat) : s \in SkeletonSources}

VARIABLES
    m_jumpMatrices,          \* std::vector<JumpMatrixPtr>
    m_localSchurOps,         \* std::vector<OpPtr>
    m_localScalingOps,       \* std::vector<OpPtr>: a null for each subdomain
    m_localScalingTransOps,  \* std::vector<OpPtr>: a null for each subdomain
    m_localScaling,          \* std::vector<gsMatrix<T>>: one column each
    b_prec,                  \* the operator the last preconditioner() returned
    b_in,                    \* the vector that operator was last applied to
    b_out,                   \* the result of that apply
    b_call,                  \* the last call on the builder and how it ended
    b_value,                 \* the number that call returned, 0 if none
    everScaled               \* history: setupMultiplicityScaling() was called

builderVars == <<m_jumpMatrices, m_localSchurOps, m_localScalingOps,
                 m_localScalingTransOps, m_localScaling,
                 b_prec, b_in, b_out, b_call, b_value, everScaled>>

BuilderMembers ==
    /\ m_jumpMatrices = <<>> /\ m_localSchurOps = <<>>
    /\ m_localScalingOps = <<>> /\ m_localScalingTransOps = <<>>
    /\ m_localScaling = <<>>
    /\ b_prec = NoOp /\ b_in = <<>> /\ b_out = <<>>
    /\ b_value = 0 /\ everScaled = FALSE

BuilderIdle == BuilderMembers /\ b_call = [op |-> "idle", outcome |-> "ok"]

\* The default constructor
NewBuilder ==
    /\ b_call = [op |-> "idle", outcome |-> "ok"]
    /\ b_call' = [op |-> "new", outcome |-> "ok"]
    /\ UNCHANGED <<m_jumpMatrices, m_localSchurOps, m_localScalingOps,
                   m_localScalingTransOps, m_localScaling,
                   b_prec, b_in, b_out>>
    /\ b_value' = 0 /\ UNCHANGED everScaled

BuilderActive == b_call.op # "idle"

\* reserve(n): it reserves capacity in the five vectors and changes nothing
\* of what they hold
Reserve ==
    /\ BuilderActive
    /\ b_call' = [op |-> "reserve", outcome |-> "ok"]
    /\ UNCHANGED <<m_jumpMatrices, m_localSchurOps, m_localScalingOps,
                   m_localScalingTransOps, m_localScaling,
                   b_prec, b_in, b_out>>
    /\ b_value' = 0 /\ UNCHANGED everScaled

\* C22 mutant: the new subdomain is put in front of the ones registered
AddSubdomainInFront ==
    /\ BuilderActive
    /\ Len(m_jumpMatrices) < MaxSub
    /\ \E data \in SubdomainInputs :
          /\ m_jumpMatrices' = <<data.jumpMatrix>> \o m_jumpMatrices
          /\ m_localSchurOps' = <<data.localSchurOp>> \o m_localSchurOps
    /\ m_localScalingOps' = Append(m_localScalingOps, NoOp)
    /\ m_localScalingTransOps' = Append(m_localScalingTransOps, NoOp)
    /\ b_call' = [op |-> "addSubdomain", outcome |-> "ok"]
    /\ UNCHANGED <<m_localScaling, b_prec, b_in, b_out>>
    /\ b_value' = 0 /\ UNCHANGED everScaled

\* jumpMatrix(k), localSchurOps(k), localScaling(k) for a registered k: each
\* returns a reference to the k-th element of its vector
Accessors ==
    /\ BuilderActive
    /\ Len(m_jumpMatrices) > 0
    /\ b_call' = [op |-> "accessor", outcome |-> "ok"]
    /\ UNCHANGED <<m_jumpMatrices, m_localSchurOps, m_localScalingOps,
                   m_localScalingTransOps, m_localScaling,
                   b_prec, b_in, b_out>>
    /\ b_value' = 0 /\ UNCHANGED everScaled

\* addSubdomain(jumpMatrix, localSchurOp), also in its pair form
AddSubdomain ==
    /\ BuilderActive
    /\ Len(m_jumpMatrices) < MaxSub
    /\ \E data \in SubdomainInputs :
          /\ m_jumpMatrices' = Append(m_jumpMatrices, data.jumpMatrix)
          /\ m_localSchurOps' = Append(m_localSchurOps, data.localSchurOp)
    /\ m_localScalingOps' = Append(m_localScalingOps, NoOp)
    /\ m_localScalingTransOps' = Append(m_localScalingTransOps, NoOp)
    /\ b_call' = [op |-> "addSubdomain", outcome |-> "ok"]
    /\ UNCHANGED <<m_localScaling, b_prec, b_in, b_out>>
    /\ b_value' = 0 /\ UNCHANGED everScaled

\* C16 mutant: a stored entry takes 1 off the column instead of adding 1
ScalingColumnCountingDown(jm, sz) ==
    [i \in 1..sz |->
        Rat(1 - Cardinality({r \in 0..(jm.rows - 1) :
                                i <= jm.cols /\ Stored(jm, r, i - 1)}))]

\* C3 mutant: the column starts at 0 instead of 1
ScalingColumnFromZero(jm, sz) ==
    [i \in 1..sz |->
        Rat(Cardinality({r \in 0..(jm.rows - 1) :
                            i <= jm.cols /\ Stored(jm, r, i - 1)}))]

\* The column sc that setupMultiplicityScaling fills for one subdomain: 1
\* everywhere, and 1 more for every stored entry of the jump matrix in that
\* column.  Every pair registered has a Schur operator of as many rows as the
\* jump matrix has columns, so sc(c,0) is inside the column.
ScalingColumn(jm, sz) ==
    [i \in 1..sz |->
        Rat(1 + Cardinality({r \in 0..(jm.rows - 1) :
                                i <= jm.cols /\ Stored(jm, r, i - 1)}))]

\* setupMultiplicityScaling(); its assertion compares the sizes of two
\* vectors that addSubdomain extends together
SetupMultiplicityScaling ==
    /\ BuilderActive
    /\ Len(m_jumpMatrices) = Len(m_localSchurOps)
    /\ m_localScaling' =
          [k \in 1..Len(m_jumpMatrices) |->
              ScalingColumn(m_jumpMatrices[k], Rows(m_localSchurOps[k]))]
    /\ b_call' = [op |-> "setupMultiplicityScaling", outcome |-> "ok"]
    /\ UNCHANGED <<m_jumpMatrices, m_localSchurOps, m_localScalingOps,
                   m_localScalingTransOps, b_prec, b_in, b_out>>
    /\ b_value' = 0 /\ everScaled' = TRUE

\* nLagrangeMultipliers(), for a builder with a subdomain registered
nLagrangeMultipliers == m_jumpMatrices[1].rows

\* The sz x sz matrix "scaling" of preconditioner(): 1/m_localScaling[k](i,0)
\* on the diagonal and nothing stored elsewhere
ScalingMatrix(sc, sz) ==
    [rows |-> sz, cols |-> sz,
     val |-> [i \in 1..sz |->
                [j \in 1..sz |-> IF i = j THEN Recip(sc[i]) ELSE Zero]]]

\* C4 mutant: the scaling applied on one side only
LocalOpScaledOnce(scalingOp, schurOp) ==
    MakeProductOp(<<scalingOp, schurOp>>)

\* The product "local" of preconditioner() for subdomain i
LocalOp(scalingOp, schurOp) ==
    MakeProductOp(<<scalingOp, schurOp, scalingOp>>)

\* The two assertions of preconditioner()
PreconditionerReady ==
    /\ Len(m_jumpMatrices) = Len(m_localScaling)
    /\ Len(m_jumpMatrices) = Len(m_localSchurOps)

\* C1 mutant: the loop over the subdomains leaves out the first one
AssembleWithoutFirst(jumpMatrices, localSchurOps, localScaling) ==
    LET pnr == Len(jumpMatrices)
        scalingOps == [k \in 1..pnr |->
            MakeMatrixOp(ScalingMatrix(localScaling[k],
                                       Rows(localSchurOps[k])))]
    IN  MakeAdditiveOp(
            SubSeq(jumpMatrices, 2, pnr),
            SubSeq([i \in 1..pnr |->
                       LocalOp(scalingOps[i], localSchurOps[i])], 2, pnr))

\* The body of preconditioner(): the scaling operators, then one addOperator
\* per subdomain, in the order of registration
AssemblePreconditioner(jumpMatrices, localSchurOps, localScaling) ==
    LET pnr == Len(jumpMatrices)
        scalingOps == [k \in 1..pnr |->
            MakeMatrixOp(ScalingMatrix(localScaling[k],
                                       Rows(localSchurOps[k])))]
    IN  MakeAdditiveOp(
            jumpMatrices,
            [i \in 1..pnr |-> LocalOp(scalingOps[i], localSchurOps[i])])

\* preconditioner(), its assertions holding
Preconditioner ==
    /\ BuilderActive
    /\ PreconditionerReady
    /\ b_prec' = AssemblePreconditioner(m_jumpMatrices, m_localSchurOps,
                                        m_localScaling)
    /\ b_in' = <<>> /\ b_out' = <<>>
    /\ b_call' = [op |-> "preconditioner", outcome |-> "ok"]
    /\ UNCHANGED <<m_jumpMatrices, m_localSchurOps, m_localScalingOps,
                   m_localScalingTransOps, m_localScaling>>
    /\ b_value' = 0 /\ UNCHANGED everScaled

\* preconditioner(), an assertion failing: a build with assertions throws,
\* one without them reads m_localScaling past its end and returns whatever
\* that gives
PreconditionerUnready ==
    /\ BuilderActive
    /\ ~PreconditionerReady
    /\ \E o \in {"assertion", "undefined"} :
          /\ b_call' = [op |-> "preconditioner", outcome |-> o]
          /\ b_prec' = IF o = "assertion" THEN NoOp
                       ELSE [kind |-> "undefined"]
    /\ b_in' = <<>> /\ b_out' = <<>>
    /\ UNCHANGED <<m_jumpMatrices, m_localSchurOps, m_localScalingOps,
                   m_localScalingTransOps, m_localScaling>>
    /\ b_value' = 0 /\ UNCHANGED everScaled

\* The vectors the preconditioner is applied to: the unit vectors
PrecInputs(n) ==
    {[i \in 1..n |-> IF i = j THEN One ELSE Zero] : j \in 1..n}

\* apply(x, y) on the operator preconditioner() returned, for x in the space
\* of the Lagrange multipliers.  An operator whose stages do not fit has no
\* result.
ApplyPreconditioner ==
    /\ BuilderActive
    /\ b_prec.kind = "additive"
    /\ Len(b_prec.ops) > 0
    /\ \E u \in PrecInputs(b_prec.transfers[1].rows) :
          /\ b_in' = u
          /\ IF Compatible(b_prec) /\ Cols(b_prec) = Len(u)
             THEN /\ b_out' = Apply(b_prec, u)
                  /\ b_call' = [op |-> "apply", outcome |-> "ok"]
             ELSE /\ b_out' = <<>>
                  /\ b_call' = [op |-> "apply", outcome |-> "mismatch"]
    /\ UNCHANGED <<m_jumpMatrices, m_localSchurOps, m_localScalingOps,
                   m_localScalingTransOps, m_localScaling, b_prec>>
    /\ b_value' = 0 /\ UNCHANGED everScaled

\* A call of nLagrangeMultipliers(): the rows of the first jump matrix.  With
\* none registered a build with assertions throws, one without them reads
\* m_jumpMatrices[0] of an empty vector.
CallNLagrangeMultipliers ==
    /\ BuilderActive
    /\ IF Len(m_jumpMatrices) > 0
       THEN /\ b_value' = nLagrangeMultipliers
            /\ b_call' = [op |-> "nLagrangeMultipliers", outcome |-> "ok"]
       ELSE /\ b_value' = 0
            /\ \E o \in {"assertion", "undefined"} :
                  b_call' = [op |-> "nLagrangeMultipliers", outcome |-> o]
    /\ UNCHANGED <<m_jumpMatrices, m_localSchurOps, m_localScalingOps,
                   m_localScalingTransOps, m_localScaling,
                   b_prec, b_in, b_out, everScaled>>

BuilderNext ==
    \/ Reserve
    \/ AddSubdomain
    \/ Accessors
    \/ CallNLagrangeMultipliers
    \/ SetupMultiplicityScaling
    \/ Preconditioner
    \/ PreconditionerUnready
    \/ ApplyPreconditioner

\* ------------------------------------------------------------------------
\* One apply of the Additive operator, its terms computed by workers
\* ------------------------------------------------------------------------

\* The largest number of terms, one worker each
MaxWorkers == 3

\* The subdomains of these operators: two Lagrange multipliers each
ParPairs ==
    { [jumpMatrix |-> SpMat(<<<<1, 0>>, <<-1, 1>>>>),
       localSchurOp |-> MakeMatrixOp(SpMat(<<<<2, 1>>, <<1, 2>>>>))],
      restrictToSkeleton(SpMat(<<<<1, 0, 0>>, <<0, 0, -1>>>>), Laplace) }

\* The operators preconditioner() returns for 2..MaxWorkers of them, after
\* setupMultiplicityScaling(): a first subdomain, and one or more copies of
\* the other one
ParOps ==
    { AssemblePreconditioner(
          [k \in 1..Len(q) |-> q[k].jumpMatrix],
          [k \in 1..Len(q) |-> q[k].localSchurOp],
          [k \in 1..Len(q) |->
              ScalingColumn(q[k].jumpMatrix, Rows(q[k].localSchurOp))]) :
        q \in {s \in UNION {[1..n -> ParPairs] : n \in 2..MaxWorkers} :
                  s[1] # s[2] /\ \A k \in 2..Len(s) : s[k] = s[2]} }

\* The contribution of term k to op.apply(u)
AdditiveTerm(op, k, u) ==
    MatVec(op.transfers[k].val,
           Apply(op.ops[k], MatVec(Transpose(op.transfers[k]).val, u)))

VARIABLES
    ap_op,        \* the Additive operator
    ap_x,         \* the vector it is applied to
    ap_part,      \* per worker: its contribution, once computed
    ap_seen,      \* per worker: the shared vector as it was when the worker
                  \* computed, read outside the accumulation step
    ap_acc,       \* the shared vector of the Lagrange multipliers
    ap_at,        \* per worker: idle, computed, added
    ap_pc         \* idle, running, done

parVars == <<ap_op, ap_x, ap_part, ap_seen, ap_acc, ap_at, ap_pc>>

ParIdle ==
    /\ ap_op = NoOp /\ ap_x = <<>> /\ ap_part = <<>> /\ ap_seen = <<>>
    /\ ap_acc = <<>> /\ ap_at = <<>> /\ ap_pc = "idle"

\* apply(x, y) is called on an operator whose stages fit: the shared vector
\* is set to zero and one worker per term is started
ParApplyCall ==
    /\ ap_pc = "idle"
    /\ ap_op' \in {o \in ParOps : Compatible(o)}
    /\ ap_x' \in PrecInputs(Cols(ap_op'))
    /\ ap_part' = [k \in 1..Len(ap_op'.ops) |-> <<>>]
    /\ ap_seen' = [k \in 1..Len(ap_op'.ops) |-> <<>>]
    /\ ap_acc' = VZero(Len(ap_x'))
    /\ ap_at' = [k \in 1..Len(ap_op'.ops) |-> "idle"]
    /\ ap_pc' = "running"

\* Worker k computes the contribution of its subdomain from the term's own
\* transfer matrix and operator
WorkerCompute(k) ==
    /\ ap_pc = "running"
    /\ ap_at[k] = "idle"
    /\ ap_part' = [ap_part EXCEPT ![k] = AdditiveTerm(ap_op, k, ap_x)]
    /\ ap_seen' = [ap_seen EXCEPT ![k] = ap_acc]
    /\ ap_at' = [ap_at EXCEPT ![k] = "computed"]
    /\ UNCHANGED <<ap_op, ap_x, ap_acc, ap_pc>>

\* C23 mutant: the worker adds to the value it read before the accumulation
\* step, and overwrites what others have added since
AccumulatedFromSnapshot(acc, seen, part) == VAdd(seen, part)

\* The synchronized accumulation step: read, add and write in one
Accumulated(acc, seen, part) == VAdd(acc, part)

\* Worker k adds its contribution to the shared vector
WorkerAccumulate(k) ==
    /\ ap_pc = "running"
    /\ ap_at[k] = "computed"
    /\ ap_acc' = Accumulated(ap_acc, ap_seen[k], ap_part[k])
    /\ ap_at' = [ap_at EXCEPT ![k] = "added"]
    /\ UNCHANGED <<ap_op, ap_x, ap_part, ap_seen, ap_pc>>

\* apply returns when every worker has added its contribution
ParApplyReturn ==
    /\ ap_pc = "running"
    /\ \A k \in 1..Len(ap_at) : ap_at[k] = "added"
    /\ ap_pc' = "done"
    /\ UNCHANGED <<ap_op, ap_x, ap_part, ap_seen, ap_acc, ap_at>>

ParNext ==
    \/ \E k \in 1..Len(ap_at) : WorkerCompute(k)
    \/ \E k \in 1..Len(ap_at) : WorkerAccumulate(k)
    \/ ParApplyReturn

\* ------------------------------------------------------------------------
\* gsBiCgStab: the preconditioned BiCGStab iteration
\* ------------------------------------------------------------------------

\* The largest iteration cap (m_max_iters) a solve is started with
MaxIters == 3

\* The system operators m_mat of the 2x2 solves, as dense matrices
MatOps ==
    { <<<<2, 1>>, <<1, 2>>>>,      \* symmetric positive definite
      <<<<1, 0>>, <<0, 1>>>>,      \* identity
      <<<<2, 0>>, <<0, 1>>>>,
      <<<<1, 1>>, <<-1, 1>>>>,     \* nonsymmetric
      <<<<0, 1>>, <<-1, 0>>>>,     \* skew: <r0, A r0> = 0
      <<<<0, 1>>, <<1, 0>>>>,      \* symmetric indefinite
      <<<<1, 2>>, <<0, 1>>>>,
      <<<<1, 1>>, <<1, 1>>>>,      \* singular
      <<<<1, -1>>, <<1, 1>>>>,
      <<<<0, 0>>, <<0, 0>>>> }     \* the zero operator

\* The preconditioner operators m_precond of the 2x2 solves
PrecOps ==
    { <<<<1, 0>>, <<0, 1>>>>,      \* no preconditioning
      <<<<1, 0>>, <<0, 2>>>>,
      <<<<0, 1>>, <<1, 0>>>> }

\* Right-hand sides.  The zero right-hand side is left out: what the base
\* class does with it is not part of the sources modelled here.
RhsVecs == {v \in [1..2 -> VecEntries] : v # <<0, 0>>}

\* Initial guesses; the zero vector is the default
GuessVecs == {<<0, 0>>, <<1, 0>>, <<1, 1>>}

\* 3x3 solves, without preconditioning and from the default guess
Laplace3 == <<<<2, -1, 0>>, <<-1, 2, -1>>, <<0, -1, 2>>>>   \* SPD

\* with these two the residual turns orthogonal to r0 again and again
Turn3a == <<<<-1, -1, 0>>, <<0, -1, -1>>, <<1, 0, 0>>>>
Turn3b == <<<<-1, -1, 0>>, <<-1, 0, -1>>, <<1, 0, 0>>>>

Identity3 == <<<<1, 0, 0>>, <<0, 1, 0>>, <<0, 0, 1>>>>

\* <<operator, right-hand side>>
Cases3 ==
    { <<Laplace3, <<1, 0, 0>>>>, <<Laplace3, <<0, 1, 0>>>>,
      <<Laplace3, <<1, 0, -1>>>>, <<Laplace3, <<1, 1, 1>>>>,
      <<Turn3a, <<0, 1, 0>>>>, <<Turn3a, <<1, 0, 0>>>>,
      <<Turn3a, <<1, 1, 0>>>>, <<Turn3a, <<1, 0, -1>>>>,
      <<Turn3b, <<1, 1, 1>>>>, <<Turn3b, <<1, 0, 0>>>>,
      <<Turn3b, <<1, -1, 1>>>>, <<Turn3b, <<0, 1, 1>>>> }

\* The solves: what solve() is called with, and on which operators
SolveCases ==
    { [mat |-> MRat(A), precond |-> MRat(P), rhs |-> VRat(b), x0 |-> VRat(g)] :
        A \in MatOps, P \in PrecOps, b \in RhsVecs, g \in GuessVecs }
    \cup
    { [mat |-> MRat(c[1]), precond |-> MRat(Identity3), rhs |-> VRat(c[2]),
       x0 |-> VZero(Len(c[2]))] : c \in Cases3 }

\* Tolerances m_tol
Tols == {<<1, 2>>, <<1, 100>>}

VARIABLES
    mat,          \* m_mat: the system operator A
    precond,      \* m_precond: the preconditioner operator
    rhs,          \* the right-hand side b
    x0,           \* the initial guess the solve was called with
    m_tol,        \* the tolerance
    m_max_iters,  \* the iteration cap
    x,            \* the iterate
    m_res, m_r0, m_p, m_v, m_y, m_s, m_z, m_t,
    m_alpha, m_rho, m_w,
    rho_old, beta,    \* locals of step()
    m_rhs_norm,   \* the SQUARE of the code's m_rhs_norm (no square roots here)
    m_error,      \* the SQUARE of the code's m_error
    m_num_iter,   \* the number of steps started
    ret,          \* what initIteration() / step() returned last
    pc,           \* where solve() is: uninit, loop, rho, search, stab, update, done
    nRestarts     \* history: the breakdown restarts of this solve

solverIn == <<mat, precond, rhs, x0, m_tol, m_max_iters>>
solverVecs == <<m_res, m_r0, m_p, m_v, m_y, m_s, m_z, m_t>>
solverScalars == <<m_alpha, m_rho, m_w, rho_old, beta>>
solverVars == <<solverIn, x, solverVecs, solverScalars, m_rhs_norm, m_error,
                m_num_iter, ret, pc, nRestarts>>

\* m_error < m_tol, on the squares (both sides are >= 0 or NaN)
BelowTol(err2, tol) == Lt(err2, Mul(tol, tol))

\* m_res.norm() / m_rhs_norm, squared
RelError(res, rhsNorm2) == Div(Dot(res, res), rhsNorm2)

\* abs(rho) < 1e-32 * <r0, r0>.  Every finite nonzero |rho| of the model is
\* above 2^-31 and every finite <r0, r0> below 2^31, so for finite values the
\* test is: rho = 0 < <r0, r0>.
Breakdown(rho, r0) ==
    LET a == Abs(rho)
        q == Dot(r0, r0)
    IN  IF IsNaN(a) \/ IsNaN(q) THEN FALSE
        ELSE IF ~IsFinite(q) THEN q[1] > 0 /\ IsFinite(a)
        ELSE IsZero(a) /\ q[1] > 0

\* A solver made for mat and precond, its options set, and solve(rhs, x)
\* called with x holding the initial guess
SolveCall ==
    /\ pc = "idle"
    /\ \E c \in SolveCases :
         /\ mat' = c.mat
         /\ precond' = c.precond
         /\ rhs' = c.rhs
         /\ x0' = c.x0
         /\ x' = c.x0
    /\ m_tol' \in Tols
    /\ m_max_iters' \in 0..MaxIters
    /\ pc' = "uninit"
    /\ UNCHANGED <<solverVecs, solverScalars, m_rhs_norm, m_error,
                   m_num_iter, ret, nRestarts>>

\* gsIterativeSolver::initIteration, as far as gsBiCgStab relies on it: it
\* resets the step count and stores the norm of the right-hand side
BaseInitIteration ==
    /\ m_num_iter' = 0
    /\ m_rhs_norm' = Dot(rhs, rhs)

\* C10 mutant: the shadow residual taken from the right-hand side
InitIterationShadowFromRhs ==
    /\ pc = "uninit"
    /\ BaseInitIteration
    /\ m_res' = VSub(rhs, MatVec(mat, x))
    /\ m_r0' = rhs
    /\ m_p' = VZero(Len(mat[1]))
    /\ m_v' = VZero(Len(mat[1]))
    /\ m_alpha' = One
    /\ m_rho' = One
    /\ m_w' = One
    /\ m_error' = RelError(m_res', m_rhs_norm')
    /\ ret' = BelowTol(m_error', m_tol)
    /\ pc' = IF ret' THEN "done" ELSE "loop"
    /\ UNCHANGED <<solverIn, x, m_y, m_s, m_z, m_t, rho_old, beta, nRestarts>>

\* initIteration(rhs, x), and solve() returning at once when it returns true
InitIteration ==
    /\ pc = "uninit"
    /\ BaseInitIteration
    /\ m_res' = VSub(rhs, MatVec(mat, x))
    /\ m_r0' = m_res'
    /\ m_p' = VZero(Len(mat[1]))
    /\ m_v' = VZero(Len(mat[1]))
    /\ m_alpha' = One
    /\ m_rho' = One
    /\ m_w' = One
    /\ m_error' = RelError(m_res', m_rhs_norm')
    /\ ret' = BelowTol(m_error', m_tol)
    /\ pc' = IF ret' THEN "done" ELSE "loop"
    /\ UNCHANGED <<solverIn, x, m_y, m_s, m_z, m_t, rho_old, beta, nRestarts>>

\* The loop of solve(): one more step while the cap is not reached
SolveLoop ==
    /\ pc = "loop"
    /\ IF m_num_iter < m_max_iters
       THEN /\ m_num_iter' = m_num_iter + 1
            /\ pc' = "rho"
       ELSE /\ m_num_iter' = m_num_iter
            /\ pc' = "done"
    /\ UNCHANGED <<solverIn, x, solverVecs, solverScalars, m_rhs_norm, m_error,
                   ret, nRestarts>>

\* C6 mutant: a step that meets a breakdown is given up and tried again,
\* without counting as a step
StepRhoTriesAgain ==
    /\ pc = "rho"
    /\ LET rho == Dot(m_r0, m_res) IN
         IF Breakdown(rho, m_r0)
         THEN /\ rho_old' = rho_old
              /\ m_rho' = m_rho
              /\ m_num_iter' = m_num_iter - 1
              /\ pc' = "loop"
         ELSE /\ rho_old' = m_rho
              /\ m_rho' = rho
              /\ m_num_iter' = m_num_iter
              /\ pc' = "search"
    /\ UNCHANGED <<solverIn, x, m_res, m_r0, m_p, m_v, m_y, m_s, m_z, m_t,
                   m_alpha, m_w, beta, m_rhs_norm, m_error, ret, nRestarts>>

\* C8 mutant: rho is recomputed but the shadow residual is kept
StepRhoKeepsShadow ==
    /\ pc = "rho"
    /\ rho_old' = m_rho
    /\ LET rho == Dot(m_r0, m_res) IN
         IF Breakdown(rho, m_r0)
         THEN /\ m_rho' = Dot(m_res, m_res)
              /\ nRestarts' = nRestarts + 1
         ELSE /\ m_rho' = rho
              /\ nRestarts' = nRestarts
    /\ pc' = "search"
    /\ UNCHANGED <<solverIn, x, m_res, m_r0, m_p, m_v, m_y, m_s, m_z, m_t,
                   m_alpha, m_w, beta, m_rhs_norm, m_error, m_num_iter, ret>>

\* C9 mutant: one restart is allowed, the next breakdown ends the solve
StepRhoWithBudget ==
    /\ pc = "rho"
    /\ rho_old' = m_rho
    /\ LET rho == Dot(m_r0, m_res) IN
         IF Breakdown(rho, m_r0)
         THEN IF nRestarts < 1
              THEN /\ m_r0' = m_res
                   /\ m_rho' = Dot(m_res, m_res)
                   /\ nRestarts' = nRestarts + 1
                   /\ pc' = "search"
              ELSE /\ m_r0' = m_r0
                   /\ m_rho' = rho
                   /\ nRestarts' = nRestarts
                   /\ pc' = "done"
         ELSE /\ m_r0' = m_r0
              /\ m_rho' = rho
              /\ nRestarts' = nRestarts
              /\ pc' = "search"
    /\ UNCHANGED <<solverIn, x, m_res, m_p, m_v, m_y, m_s, m_z, m_t,
                   m_alpha, m_w, beta, m_rhs_norm, m_error, m_num_iter, ret>>

\* step(), lines 53-61: rho and the restart when the residual is too
\* orthogonal to r0
StepRho ==
    /\ pc = "rho"
    /\ rho_old' = m_rho
    /\ LET rho == Dot(m_r0, m_res) IN
         IF Breakdown(rho, m_r0)
         THEN /\ m_r0' = m_res
              /\ m_rho' = Dot(m_res, m_res)
              /\ nRestarts' = nRestarts + 1
         ELSE /\ m_r0' = m_r0
              /\ m_rho' = rho
              /\ nRestarts' = nRestarts
    /\ pc' = "search"
    /\ UNCHANGED <<solverIn, x, m_res, m_p, m_v, m_y, m_s, m_z, m_t,
                   m_alpha, m_w, beta, m_rhs_norm, m_error, m_num_iter, ret>>

\* C27 mutant: applying the preconditioner overwrites it
StepSearchOverwritingPrecond ==
    /\ pc = "search"
    /\ beta' = Mul(Div(m_rho, rho_old), Div(m_alpha, m_w))
    /\ m_p' = VAdd(m_res, VScale(beta', VSub(m_p, VScale(m_w, m_v))))
    /\ m_y' = MatVec(precond, m_p')
    /\ precond' = mat
    /\ m_v' = MatVec(mat, m_y')
    /\ m_alpha' = Div(m_rho, Dot(m_r0, m_v'))
    /\ pc' = "stab"
    /\ UNCHANGED <<mat, rhs, x0, m_tol, m_max_iters,
                   x, m_res, m_r0, m_s, m_z, m_t, m_rho, m_w,
                   rho_old, m_rhs_norm, m_error, m_num_iter, ret, nRestarts>>

\* step(), lines 63-70: beta, the search direction, alpha
StepSearch ==
    /\ pc = "search"
    /\ beta' = Mul(Div(m_rho, rho_old), Div(m_alpha, m_w))
    /\ m_p' = VAdd(m_res, VScale(beta', VSub(m_p, VScale(m_w, m_v))))
    /\ m_y' = MatVec(precond, m_p')
    /\ m_v' = MatVec(mat, m_y')
    /\ m_alpha' = Div(m_rho, Dot(m_r0, m_v'))
    /\ pc' = "stab"
    /\ UNCHANGED <<solverIn, x, m_res, m_r0, m_s, m_z, m_t, m_rho, m_w,
                   rho_old, m_rhs_norm, m_error, m_num_iter, ret, nRestarts>>

\* C24 mutant: no stabilization at all
OmegaLeftOut(t, s) == Zero

\* <t,s>/<t,t> when <t,t> > 0, else 0
Omega(t, s) ==
    IF Lt(Zero, Dot(t, t)) THEN Div(Dot(t, s), Dot(t, t)) ELSE Zero

\* step(), lines 72-82: s, t and the stabilization parameter
StepStab ==
    /\ pc = "stab"
    /\ m_s' = VSub(m_res, VScale(m_alpha, m_v))
    /\ m_z' = MatVec(precond, m_s')
    /\ m_t' = MatVec(mat, m_z')
    /\ m_w' = Omega(m_t', m_s')
    /\ pc' = "update"
    /\ UNCHANGED <<solverIn, x, m_res, m_r0, m_p, m_v, m_y, m_alpha, m_rho,
                   rho_old, beta, m_rhs_norm, m_error, m_num_iter, ret,
                   nRestarts>>

\* C5 mutant: the loop goes on after step() returned true
StepUpdateKeepsGoing ==
    /\ pc = "update"
    /\ x' = VAdd(x, VAdd(VScale(m_alpha, m_y), VScale(m_w, m_z)))
    /\ m_res' = VSub(m_res, VAdd(VScale(m_alpha, m_v), VScale(m_w, m_t)))
    /\ m_error' = RelError(m_res', m_rhs_norm)
    /\ ret' = BelowTol(m_error', m_tol)
    /\ pc' = "loop"
    /\ UNCHANGED <<solverIn, m_r0, m_p, m_v, m_y, m_s, m_z, m_t,
                   solverScalars, m_rhs_norm, m_num_iter, nRestarts>>

\* C7 mutant: the error of the step before is compared with the tolerance
StepUpdateStaleError ==
    /\ pc = "update"
    /\ x' = VAdd(x, VAdd(VScale(m_alpha, m_y), VScale(m_w, m_z)))
    /\ m_res' = VSub(m_res, VAdd(VScale(m_alpha, m_v), VScale(m_w, m_t)))
    /\ m_error' = RelError(m_res', m_rhs_norm)
    /\ ret' = BelowTol(m_error, m_tol)
    /\ pc' = IF ret' THEN "done" ELSE "loop"
    /\ UNCHANGED <<solverIn, m_r0, m_p, m_v, m_y, m_s, m_z, m_t,
                   solverScalars, m_rhs_norm, m_num_iter, nRestarts>>

\* C29 mutant: the residual update leaves out the stabilization term
StepUpdateResidualWithoutStab ==
    /\ pc = "update"
    /\ x' = VAdd(x, VAdd(VScale(m_alpha, m_y), VScale(m_w, m_z)))
    /\ m_res' = VSub(m_res, VScale(m_alpha, m_v))
    /\ m_error' = RelError(m_res', m_rhs_norm)
    /\ ret' = BelowTol(m_error', m_tol)
    /\ pc' = IF ret' THEN "done" ELSE "loop"
    /\ UNCHANGED <<solverIn, m_r0, m_p, m_v, m_y, m_s, m_z, m_t,
                   solverScalars, m_rhs_norm, m_num_iter, nRestarts>>

\* step(), lines 84-92: the update of iterate and residual, the error and
\* the return value; solve() leaves its loop when step() returns true
StepUpdate ==
    /\ pc = "update"
    /\ x' = VAdd(x, VAdd(VScale(m_alpha, m_y), VScale(m_w, m_z)))
    /\ m_res' = VSub(m_res, VAdd(VScale(m_alpha, m_v), VScale(m_w, m_t)))
    /\ m_error' = RelError(m_res', m_rhs_norm)
    /\ ret' = BelowTol(m_error', m_tol)
    /\ pc' = IF ret' THEN "done" ELSE "loop"
    /\ UNCHANGED <<solverIn, m_r0, m_p, m_v, m_y, m_s, m_z, m_t,
                   solverScalars, m_rhs_norm, m_num_iter, nRestarts>>

SolverNext ==
    \/ InitIteration
    \/ SolveLoop
    \/ StepRho
    \/ StepSearch
    \/ StepStab
    \/ StepUpdate

SolverIdle ==
    /\ mat = <<>> /\ precond = <<>> /\ rhs = <<>> /\ x0 = <<>>
    /\ m_tol = Zero /\ m_max_iters = 0
    /\ x = <<>>
    /\ m_res = <<>> /\ m_r0 = <<>> /\ m_p = <<>> /\ m_v = <<>>
    /\ m_y = <<>> /\ m_s = <<>> /\ m_z = <<>> /\ m_t = <<>>
    /\ m_alpha = Zero /\ m_rho = Zero /\ m_w = Zero
    /\ rho_old = Zero /\ beta = Zero
    /\ m_rhs_norm = Zero /\ m_error = Zero
    /\ m_num_iter = 0
    /\ ret = FALSE
    /\ pc = "idle"
    /\ nRestarts = 0

vars == <<solverVars, schurVars, jumpVars, builderVars, parVars>>

\* Nothing has been called yet
Init == SolverIdle /\ SchurIdle /\ JumpIdle /\ BuilderIdle /\ ParIdle

NothingYet ==
    /\ pc = "idle" /\ sc_pc = "idle" /\ jm_pc = "idle"
    /\ b_call.op = "idle" /\ ap_pc = "idle"

\* One run is one solve, or one Schur complement built and applied, or the
\* helpers called on one jump matrix, or the life of one builder, or one
\* apply of an Additive operator
Next ==
    \/ NothingYet /\ SolveCall
          /\ UNCHANGED <<schurVars, jumpVars, builderVars, parVars>>
    \/ NothingYet /\ SchurCall
          /\ UNCHANGED <<solverVars, jumpVars, builderVars, parVars>>
    \/ NothingYet /\ JumpCall
          /\ UNCHANGED <<solverVars, schurVars, builderVars, parVars>>
    \/ NothingYet /\ NewBuilder
          /\ UNCHANGED <<solverVars, schurVars, jumpVars, parVars>>
    \/ NothingYet /\ ParApplyCall
          /\ UNCHANGED <<solverVars, schurVars, jumpVars, builderVars>>
    \/ SolverNext /\ UNCHANGED <<schurVars, jumpVars, builderVars, parVars>>
    \/ (SchurBuild \/ SchurApply)
          /\ UNCHANGED <<solverVars, jumpVars, builderVars, parVars>>
    \/ (SkeletonDofs \/ RestrictJumpMatrix \/ RestrictToSkeletonDofs)
          /\ UNCHANGED <<solverVars, schurVars, builderVars, parVars>>
    \/ BuilderNext /\ UNCHANGED <<solverVars, schurVars, jumpVars, parVars>>
    \/ ParNext /\ UNCHANGED <<solverVars, schurVars, jumpVars, builderVars>>

Spec == Init /\ [][Next]_vars

\* The positions of a solve that is under way
Running == {"uninit", "loop", "rho", "search", "stab", "update"}

\* solve() moves on to its next position
SolveMovesOn ==
    /\ pc \in Running
    /\ pc' \in Running \cup {"done"}
    /\ pc' # pc

\* A solve that is started runs on: solve() is one sequential call, and each
\* of its parts is straight-line code that ends
FairSpec == Spec /\ WF_pc(SolveMovesOn)

\* ========================================================================
\* The properties checked
\* ========================================================================

\* ---- gsScaledDirichletPrec -------------------------------------------

\* A diagonal matrix, as a plain matrix of values
DiagOf(d) ==
    [i \in 1..Len(d) |-> [j \in 1..Len(d) |-> IF i = j THEN d[i] ELSE Zero]]

UnitVec(n, j) == [i \in 1..n |-> IF i = j THEN One ELSE Zero]

\* The subdomains fit together: one number of multipliers, and a square
\* Schur operator of the size of the jump matrix' columns
FitsTogether(jumps, schurs) ==
    \A k \in 1..Len(jumps) :
        /\ jumps[k].rows = jumps[1].rows
        /\ Compatible(schurs[k])
        /\ Rows(schurs[k]) = jumps[k].cols
        /\ Cols(schurs[k]) = jumps[k].cols

\* The reciprocals on the diagonal of the scaling operator of term k
ScalingDiag(prec, k) ==
    LET D == prec.ops[k].ops[1].mat
    IN  [i \in 1..D.rows |-> D.val[i][i]]

\* sum over k of B_k D_k S_k D_k B_k^T u
SumBDSDBt(prec, u) ==
    LET B(k) == prec.transfers[k]
        D(k) == DiagOf(ScalingDiag(prec, k))
        S(k) == prec.ops[k].ops[2]
        term(k) ==
            MatVec(B(k).val,
                MatVec(D(k),
                    Apply(S(k),
                        MatVec(D(k), MatVec(Transpose(B(k)).val, u)))))
        part[k \in 0..Len(prec.ops)] ==
            IF k = 0 THEN VZero(Len(u)) ELSE VAdd(part[k - 1], term(k))
    IN  part[Len(prec.ops)]

\* sum over k of B_k^T D_k S_k D_k B_k u, where u fits the columns of B_k
SumBtDSDB(prec, u) ==
    LET B(k) == prec.transfers[k]
        D(k) == DiagOf(ScalingDiag(prec, k))
        S(k) == prec.ops[k].ops[2]
        term(k) ==
            MatVec(Transpose(B(k)).val,
                MatVec(D(k),
                    Apply(S(k), MatVec(D(k), MatVec(B(k).val, u)))))
        part[k \in 0..Len(prec.ops)] ==
            IF k = 0 THEN VZero(Len(u)) ELSE VAdd(part[k - 1], term(k))
    IN  part[Len(prec.ops)]

\* The operator just returned has one term per registered subdomain, in the
\* order of registration, made of the subdomain's own jump matrix, Schur
\* operator and reciprocal scaling
TermsAsRegistered ==
    /\ b_prec.kind = "additive"
    /\ Len(b_prec.ops) = Len(m_jumpMatrices)
    /\ b_prec.transfers = m_jumpMatrices
    /\ \A k \in 1..Len(m_jumpMatrices) :
          /\ b_prec.ops[k].kind = "product"
          /\ Len(b_prec.ops[k].ops) = 3
          /\ b_prec.ops[k].ops[2] = m_localSchurOps[k]
          /\ b_prec.ops[k].ops[1] = b_prec.ops[k].ops[3]
          /\ b_prec.ops[k].ops[1].kind = "matrix"
          /\ b_prec.ops[k].ops[1].mat.val =
                DiagOf([i \in 1..Rows(m_localSchurOps[k]) |->
                           Recip(m_localScaling[k][i])])

RowsTouching(jm, c) ==
    {r \in 0..(jm.rows - 1) : ~IsZero(jm.val[r + 1][c + 1])}

\* C3: after setupMultiplicityScaling(), for every registered subdomain k and
\* every skeleton dof c of k, the scaling value is 1 plus the number of rows
\* of the jump matrix of k itself that have a nonzero entry in column c; the
\* jump matrices of the other subdomains do not enter.
C3_MultiplicityScaling ==
    (b_call.op = "setupMultiplicityScaling")
        => /\ Len(m_localScaling) = Len(m_jumpMatrices)
           /\ \A k \in 1..Len(m_jumpMatrices) :
                 /\ Len(m_localScaling[k]) = m_jumpMatrices[k].cols
                 /\ \A c \in 0..(m_jumpMatrices[k].cols - 1) :
                       m_localScaling[k][c + 1] =
                          Rat(1 + Cardinality(
                                     RowsTouching(m_jumpMatrices[k], c)))

\* C3 witness: two subdomains scaled, one with a dof touched by two rows
\* (value 3), the other with a different jump matrix
C3_Witness ==
    /\ b_call.op = "setupMultiplicityScaling"
    /\ Len(m_localScaling) = 2
    /\ m_jumpMatrices[1] # m_jumpMatrices[2]
    /\ \E k \in 1..2 : \E i \in 1..Len(m_localScaling[k]) :
          m_localScaling[k][i] = Rat(3)

\* C4: in the operator preconditioner() returned, a skeleton dof with scaling
\* value s is weighted by 1/s on each side of S_k: entry (i, j) of the local
\* operator of subdomain k is entry (i, j) of S_k divided by s_i and by s_j,
\* so 1/(s s) on the diagonal.  For two subdomains that share one dof through
\* one multiplier the value is 2 on each side, and the operator applied to
\* the unit vector of the multiplier gives a quarter of the sum of the two
\* Schur values.
C4_ReciprocalScalingBothSides ==
    /\ (b_call = [op |-> "preconditioner", outcome |-> "ok"]
          /\ FitsTogether(m_jumpMatrices, m_localSchurOps))
          => \A k \in 1..Len(m_jumpMatrices) :
                LET n == m_jumpMatrices[k].cols
                    sc == m_localScaling[k]
                IN  /\ Compatible(b_prec.ops[k])
                    /\ \A i, j \in 1..n :
                          Apply(b_prec.ops[k], UnitVec(n, j))[i] =
                             Div(Div(Apply(m_localSchurOps[k],
                                           UnitVec(n, j))[i], sc[i]), sc[j])
    /\ (/\ b_call.op = "apply"
        /\ Len(b_prec.ops) = 2
        /\ \A k \in 1..2 :
              /\ b_prec.transfers[k].rows = 1
              /\ b_prec.transfers[k].cols = 1
              /\ Abs(b_prec.transfers[k].val[1][1]) = One
        /\ b_in = <<One>>)
          => /\ b_call.outcome = "ok"
             /\ \A k \in 1..2 : ScalingDiag(b_prec, k) = <<Recip(Rat(2))>>
             /\ b_out = <<Div(Add(Apply(b_prec.ops[1].ops[2], <<One>>)[1],
                                  Apply(b_prec.ops[2].ops[2], <<One>>)[1]),
                              Rat(4))>>

\* C4 witness: two subdomains made by restrictToSkeleton, sharing one dof
\* through one multiplier, and the operator applied to the unit vector
C4_Witness ==
    /\ b_call = [op |-> "apply", outcome |-> "ok"]
    /\ Len(b_prec.ops) = 2
    /\ \A k \in 1..2 :
          /\ b_prec.transfers[k].rows = 1
          /\ b_prec.transfers[k].cols = 1
          /\ b_prec.ops[k].ops[2].kind = "sum"
    /\ b_prec.transfers[1] # b_prec.transfers[2]
    /\ b_in = <<One>>
    /\ b_out = <<Div(Add(Div(Rat(4), Rat(3)), Div(Rat(2), Rat(7))), Rat(4))>>

\* The Schur complement as the formula defines it, taken from the matrix
\* itself: kept indices in the order given, the others ascending
InteriorOf(M, dofs) ==
    SortedSeq({i \in 0..(M.rows - 1) : \A k \in 1..Len(dofs) : dofs[k] # i})

SubMatrix(M, rs, cs) ==
    [i \in 1..Len(rs) |-> [j \in 1..Len(cs) |-> At(M, rs[i], cs[j])]]

SchurFormula(M, dofs, u) ==
    LET int == InteriorOf(M, dofs)
        A00 == SubMatrix(M, dofs, dofs)
        A01 == SubMatrix(M, dofs, int)
        A10 == SubMatrix(M, int, dofs)
        A11 == SubMatrix(M, int, int)
    IN  VSub(MatVec(A00, u),
             MatVec(A01, MatVec(Inverse(A11), MatVec(A10, u))))

InteriorNonsingular(M, dofs) ==
    LET int == InteriorOf(M, dofs)
    IN  ~IsZero(Det(SubMatrix(M, int, int)))

\* C2: for distinct dofs and a nonsingular interior block, applying the
\* operator schurComplement(mat, dofs) returned to x gives
\* A00 x - A01 A11^-1 A10 x, and of the three factors of the product A10 is
\* applied first, then the interior solver, then A01.
C2_SchurApplyFormula ==
    (sc_pc \in {"applied", "mismatch"} /\ InteriorNonsingular(sc_mat, sc_dofs))
        => /\ sc_pc = "applied"
           /\ sc_y = SchurFormula(sc_mat, sc_dofs, sc_x)
           /\ LET o == ProductOrder(sc_op.ops[2].ops)
              IN  /\ o[1] = MakeMatrixOp(matrixBlocks(sc_mat, sc_dofs).A10)
                  /\ o[2].kind = "solver"
                  /\ o[3] = MakeMatrixOp(matrixBlocks(sc_mat, sc_dofs).A01)

\* C2 witness: one kept index out of three, the interior block nonsingular,
\* and a result that differs from A00 x
C2_Witness ==
    /\ sc_pc = "applied"
    /\ sc_mat.rows = 3
    /\ Len(sc_dofs) = 1
    /\ InteriorNonsingular(sc_mat, sc_dofs)
    /\ sc_y # MatVec(SubMatrix(sc_mat, sc_dofs, sc_dofs), sc_x)

\* ---- gsBiCgStab ------------------------------------------------------

\* The states of a solve
Status ==
    CASE pc = "idle" -> "None"
      [] pc = "uninit" -> "Uninitialized"
      [] pc \in {"loop", "rho", "search", "stab", "update"} -> "Iterating"
      [] pc = "done" /\ ret -> "Converged"
      [] pc = "done" /\ ~ret -> "Failed(NonConvergence)"

\* C5: a solve moves from Uninitialized to Iterating (or, the first error
\* being below the tolerance, to Converged at once) and from Iterating to
\* Converged or Failed(NonConvergence), and in no other way: no step before
\* the initialization, no step and no change of the iterate after an
\* outcome, and step i+1 starts only when step i is completed (the parts of a
\* step follow each other, the count goes up by one per step, and the
\* iterate changes only at the end of a step).
C5_SolverStates ==
    /\ [](pc = "uninit" => m_num_iter = 0 /\ x = x0)
    /\ [](ret => pc = "done")
    /\ [][/\ <<pc, pc'>> \in
                {<<"idle", "uninit">>,
                 <<"uninit", "loop">>, <<"uninit", "done">>,
                 <<"loop", "rho">>, <<"rho", "search">>,
                 <<"search", "stab">>, <<"stab", "update">>,
                 <<"update", "loop">>, <<"update", "done">>,
                 <<"loop", "done">>}
          /\ pc' = "rho" => pc = "loop" /\ ~ret /\ m_num_iter' = m_num_iter + 1
          /\ pc' # "rho" /\ pc # "uninit" => m_num_iter' = m_num_iter
          /\ pc \notin {"idle", "update"} => x' = x
          /\ pc = "done" => UNCHANGED solverVars]_solverVars

\* C5 witness: a solve that converged in its third step
C5_Witness ==
    /\ Status = "Converged"
    /\ m_num_iter = 3

\* C6: every solve ends, Converged or Failed, after at most as many steps as
\* the iteration cap allows, also when steps restart after a breakdown.
C6_SolveTerminates ==
    /\ [](m_num_iter <= m_max_iters)
    /\ (pc = "uninit") ~> (pc = "done")

\* C6 witness: a solve ended at the cap with restarts on the way
C6_Witness ==
    /\ pc = "done"
    /\ m_num_iter = m_max_iters
    /\ ~ret
    /\ nRestarts >= 2

\* C7: a solve that ends without convergence has run as many steps as the
\* cap, its error is the relative residual of the current iterate and is not
\* below the tolerance, and that is an outcome, not an abort: the iterate and
\* the diagnostics are there.  Convergence is reported only with the last
\* error below the tolerance.
C7_NonConvergenceOutcome ==
    /\ (pc = "loop" /\ m_num_iter = m_max_iters) => ~ret
    /\ Status = "Failed(NonConvergence)"
          => /\ m_num_iter = m_max_iters
             /\ ~BelowTol(m_error, m_tol)
             /\ m_error = RelError(m_res, m_rhs_norm)
             /\ Len(x) = Len(rhs)
    /\ Status = "Converged"
          => /\ BelowTol(m_error, m_tol)
             /\ m_error = RelError(m_res, m_rhs_norm)

\* C7 witness: the cap reached with a finite error that is not below the
\* tolerance
C7_Witness ==
    /\ Status = "Failed(NonConvergence)"
    /\ m_num_iter = MaxIters
    /\ IsFinite(m_error)
    /\ x # x0

\* C8: in a step where |rho| is below the fraction of <r0, r0>, the step
\* replaces r0 by the residual and rho by <r, r>, changes neither x nor r in
\* doing so, and goes on: beta and alpha are computed from the new rho and
\* the new r0, which stay as they are until the end of the step.
C8_RestartInsideStep ==
    [][/\ (pc = "rho" /\ Breakdown(Dot(m_r0, m_res), m_r0))
             => /\ m_r0' = m_res
                /\ m_rho' = Dot(m_res, m_res)
                /\ x' = x /\ m_res' = m_res
                /\ m_num_iter' = m_num_iter
                /\ pc' = "search"
       /\ pc = "search"
             => /\ beta' = Mul(Div(m_rho, rho_old), Div(m_alpha, m_w))
                /\ m_alpha' = Div(m_rho, Dot(m_r0, m_v'))
                /\ m_r0' = m_r0 /\ m_rho' = m_rho
       /\ pc = "stab" => m_r0' = m_r0 /\ m_rho' = m_rho
       /\ pc = "update" => m_r0' = m_r0 /\ m_rho' = m_rho]_solverVars

\* C8 witness: a step with a restart has been completed with finite values
C8_Witness ==
    /\ nRestarts = 1
    /\ pc = "loop"
    /\ IsFinite(m_error)
    /\ m_r0 # VSub(rhs, MatVec(mat, x0))

\* The largest budget of restarts that the iteration cap does not enforce
\* anyway: the first step of a solve never restarts
RetryBudget == MaxIters - 2

C10_InitIteration ==
    (pc \in {"loop", "done"} /\ m_num_iter = 0)
        => /\ m_res = VSub(rhs, MatVec(mat, x0))
           /\ m_r0 = m_res
           /\ m_p = VZero(Len(rhs)) /\ m_v = VZero(Len(rhs))
           /\ m_alpha = One /\ m_rho = One /\ m_w = One
           /\ m_error = Div(Dot(m_res, m_res), Dot(rhs, rhs))
           /\ x = x0
           /\ nRestarts = 0
           /\ BelowTol(m_error, m_tol) <=> Status = "Converged"
           /\ pc = "loop" => ~BelowTol(m_error, m_tol)

\* C10 witness: converged at once from a guess that is not zero
C10_Witness ==
    /\ Status = "Converged"
    /\ m_num_iter = 0
    /\ \E i \in 1..Len(x0) : ~IsZero(x0[i])
    /\ m_max_iters > 0

\* ---- gsScaledDirichletPrec: registration and preconditions -----------

\* C11: addSubdomain refuses a jump matrix whose row count differs from the
\* ones registered before, so with two or more subdomains registered all
\* jump matrices have the same number of rows.
C11_SameRowCount ==
    Len(m_jumpMatrices) >= 2
        => \A k \in 1..Len(m_jumpMatrices) :
              m_jumpMatrices[k].rows = m_jumpMatrices[1].rows

\* C12: with no scaling setup call ever made, preconditioner() fails and
\* returns no operator.
C12_NeverScaledFails ==
    (b_call.op = "preconditioner" /\ ~everScaled)
        => b_call.outcome = "assertion" /\ b_prec = NoOp

\* C13: with no subdomain registered, preconditioner() fails and returns no
\* operator, an empty Additive operator included, whether or not the scaling
\* was set up before.
C13_EmptyBuilderFails ==
    (b_call.op = "preconditioner" /\ Len(m_jumpMatrices) = 0)
        => b_call.outcome = "assertion" /\ b_prec = NoOp

\* C14: preconditioner() called with a subdomain registered after the last
\* scaling setup fails, and builds no operator from a missing or stale
\* scaling.
C14_StaleScalingFails ==
    (/\ b_call.op = "preconditioner"
     /\ everScaled
     /\ Len(m_localScaling) < Len(m_jumpMatrices))
        => b_call.outcome = "assertion" /\ b_prec = NoOp

\* C15: nLagrangeMultipliers() returns the row count of every registered
\* jump matrix, fails when none is registered, and leaves the builder as it
\* was.
C15_SharedRowCountReturned ==
    b_call.op = "nLagrangeMultipliers"
        => IF Len(m_jumpMatrices) = 0
           THEN b_call.outcome = "assertion"
           ELSE /\ b_call.outcome = "ok"
                /\ \A k \in 1..Len(m_jumpMatrices) :
                      b_value = m_jumpMatrices[k].rows

\* C16: every scaling value held by the builder is strictly positive, and
\* every reciprocal on the diagonal of a scaling operator of an assembled
\* preconditioner is a finite positive number: no division by zero was taken.
C16_ScalingPositive ==
    /\ \A k \in 1..Len(m_localScaling) :
          \A i \in 1..Len(m_localScaling[k]) :
             IsFinite(m_localScaling[k][i]) /\ Lt(Zero, m_localScaling[k][i])
    /\ b_prec.kind = "additive"
          => \A k \in 1..Len(b_prec.ops) :
                \A i \in 1..Len(ScalingDiag(b_prec, k)) :
                   /\ IsFinite(ScalingDiag(b_prec, k)[i])
                   /\ Lt(Zero, ScalingDiag(b_prec, k)[i])

\* The scaling was computed for two subdomains, one value of it above 1, and
\* the preconditioner was assembled from it
C16_Witness ==
    /\ everScaled
    /\ b_call = [op |-> "preconditioner", outcome |-> "ok"]
    /\ Len(m_localScaling) = 2
    /\ Len(b_prec.ops) = 2
    /\ \E k \in 1..2 : \E i \in 1..Len(m_localScaling[k]) :
          Lt(One, m_localScaling[k][i])

\* ---- skeletonDofs and restrictJumpMatrix ------------------------------

C17_WitnessZeroMatrix ==
    /\ jm_pc = "skeleton"
    /\ jm_skel = <<>>
    /\ \A r \in 0..(jm_B.rows - 1) : \A c \in 0..(jm_B.cols - 1) :
          IsZero(At(jm_B, r, c))

\* C18: for distinct dofs, restrictJumpMatrix(B, dofs) has the rows of B and
\* one column per dof, and its entry (r, i) is B(r, dofs[i]), in the order
\* the dofs are given in; nothing of the other columns is in it.
C18_RestrictedEntries ==
    jm_pc \in {"restricted", "skeletonRestricted"}
        => /\ jm_R.rows = jm_B.rows
           /\ jm_R.cols = Len(jm_used)
           /\ Len(jm_R.val) = jm_B.rows
           /\ \A r \in 1..jm_B.rows :
                 /\ Len(jm_R.val[r]) = Len(jm_used)
                 /\ \A i \in 1..Len(jm_used) :
                       jm_R.val[r][i] = At(jm_B, r - 1, jm_used[i])

\* restrictJumpMatrix has returned for dofs given out of order, column 0
\* among them but not first, with entries of B in column 0 and in a column
\* that is dropped
C18_Witness ==
    /\ jm_pc = "restricted"
    /\ Len(jm_used) = 2
    /\ jm_used[1] > jm_used[2]
    /\ jm_used[2] = 0
    /\ \E r \in 0..(jm_B.rows - 1) : ~IsZero(At(jm_B, r, 0))
    /\ \E c \in 0..(jm_B.cols - 1) :
          /\ \A i \in 1..Len(jm_used) : jm_used[i] # c
          /\ \E r \in 0..(jm_B.rows - 1) : ~IsZero(At(jm_B, r, c))

\* Column i of R written to column dofs[i] of a zero matrix with n columns
ZeroPadded(R, dofs, n) ==
    [rows |-> R.rows, cols |-> n,
     val |-> [r \in 1..R.rows |->
                [c \in 1..n |->
                    IF \E i \in 1..Len(dofs) : dofs[i] = c - 1
                    THEN R.val[r][CHOOSE i \in 1..Len(dofs) : dofs[i] = c - 1]
                    ELSE Zero]]]

\* C19: B restricted to skeletonDofs(B) and padded with zero columns again is
\* B: the same shape, the same nonzero places and the same values.
C19_RoundTrip ==
    jm_pc = "skeletonRestricted"
        => LET back == ZeroPadded(jm_R, jm_skel, jm_B.cols)
           IN  /\ back.rows = jm_B.rows
               /\ back.cols = jm_B.cols
               /\ \A r \in 0..(jm_B.rows - 1) : \A c \in 0..(jm_B.cols - 1) :
                     /\ At(back, r, c) = At(jm_B, r, c)
                     /\ IsZero(At(back, r, c)) <=> IsZero(At(jm_B, r, c))

\* The round trip was made for a matrix with a column of zeros, which the
\* restriction drops, and entries of both signs in the columns it keeps
C19_Witness ==
    /\ jm_pc = "skeletonRestricted"
    /\ Len(jm_skel) = 2
    /\ jm_R.cols = 2
    /\ jm_B.cols > jm_R.cols
    /\ \E r \in 0..(jm_B.rows - 1) : \E c \in 0..(jm_B.cols - 1) :
          Lt(Zero, At(jm_B, r, c))
    /\ \E r \in 0..(jm_B.rows - 1) : \E c \in 0..(jm_B.cols - 1) :
          Lt(At(jm_B, r, c), Zero)

\* ---- schurComplement with every index kept -----------------------------

\* The list 0, 1, ..., n-1
AllDofs(n) == [i \in 1..n |-> i - 1]

\* C20: when dofs is the full index set 0..n-1, the interior block A11 is
\* 0 x 0, the operator is built and applies without failing, and applied to x
\* it gives M x.
C20_FullDofsNoElimination ==
    (sc_pc \in {"built", "applied", "mismatch"}
        /\ sc_dofs = AllDofs(sc_mat.rows))
        => /\ sc_pc # "mismatch"
           /\ sc_op.kind = "sum"
           /\ sc_op.ops[2].ops[2].kind = "solver"
           /\ sc_op.ops[2].ops[2].mat.rows = 0
           /\ sc_op.ops[2].ops[2].mat.cols = 0
           /\ sc_op.ops[1].mat.val = sc_mat.val
           /\ sc_pc = "built" => Compatible(sc_op) /\ Cols(sc_op) = Len(sc_x)
           /\ sc_pc = "applied" => sc_y = MatVec(sc_mat.val, sc_x)

\* The operator for M = [[2,1],[1,2]] and dofs = 0, 1 was applied to a vector
\* that is not zero
C20_Witness ==
    /\ sc_pc = "applied"
    /\ sc_mat = SpMat(<<<<2, 1>>, <<1, 2>>>>)
    /\ sc_dofs = <<0, 1>>
    /\ sc_x = VRat(<<1, -1>>)
    /\ sc_y = VRat(<<1, -1>>)

\* ---- the interior block and its factorization --------------------------

C22_AppendOnly ==
    [][ /\ Len(m_jumpMatrices') >= Len(m_jumpMatrices)
        /\ Len(m_localSchurOps') = Len(m_jumpMatrices')
        /\ \A k \in 1..Len(m_jumpMatrices) :
              /\ m_jumpMatrices'[k] = m_jumpMatrices[k]
              /\ m_localSchurOps'[k] = m_localSchurOps[k]
        /\ IF b_call'.op = "addSubdomain"
           THEN Len(m_jumpMatrices') = Len(m_jumpMatrices) + 1
           ELSE /\ m_jumpMatrices' = m_jumpMatrices
                /\ m_localSchurOps' = m_localSchurOps
      ]_builderVars

\* A second, different subdomain was registered after the preconditioner
\* had been built for the first
C22_Witness ==
    /\ b_call.op = "addSubdomain"
    /\ Len(m_jumpMatrices) = 2
    /\ m_jumpMatrices[1] # m_jumpMatrices[2]
    /\ b_prec.kind = "additive"
    /\ Len(b_prec.ops) = 1

\* ---- the Additive operator applied by parallel workers ------------------

LeadingBlock(M, k) == [i \in 1..k |-> [j \in 1..k |-> M[i][j]]]

IsSPD(M) ==
    /\ \A i, j \in 1..Len(M) : M[i][j] = M[j][i]
    /\ \A k \in 1..Len(M) : Lt(Zero, Det(LeadingBlock(M, k)))

IsIdentity(M) ==
    \A i, j \in 1..Len(M) : M[i][j] = IF i = j THEN One ELSE Zero

\* The square of the relative residual of the iterate itself
TrueRelError == RelError(VSub(rhs, MatVec(mat, x)), Dot(rhs, rhs))

\* C24: for a symmetric positive definite n x n operator, no preconditioning
\* and a cap of at least n steps, the solve ends converged after at most n
\* steps, and the iterate it returns solves A x = b within the tolerance.
C24_SpdConvergesInNSteps ==
    (/\ pc = "done"
     /\ IsSPD(mat)
     /\ IsIdentity(precond)
     /\ m_max_iters >= Len(mat))
        => /\ ret = TRUE
           /\ m_num_iter <= Len(mat)
           /\ BelowTol(m_error, m_tol)
           /\ BelowTol(TrueRelError, m_tol)

\* A solve with the 3x3 Laplacian that needed all three steps
C24_Witness ==
    /\ pc = "done"
    /\ mat = MRat(Laplace3)
    /\ IsIdentity(precond)
    /\ ret = TRUE
    /\ m_num_iter = 3
    /\ IsZero(TrueRelError)

\* C25: omega is <t,s>/<t,t> when <t,t> > 0 and 0 otherwise, so that no
\* division by <t,t> = 0 is taken; and in a step with omega = 0 the update
\* is x += alpha y and r -= alpha v.
C25_OmegaGuard ==
    [][ /\ pc = "stab"
           => /\ Lt(Zero, Dot(m_t', m_t'))
                 => m_w' = Div(Dot(m_t', m_s'), Dot(m_t', m_t'))
              /\ ~Lt(Zero, Dot(m_t', m_t')) => m_w' = Zero
        /\ (pc = "update" /\ IsZero(m_w))
           => /\ x' = VAdd(x, VScale(m_alpha, m_y))
              /\ m_res' = VSub(m_res, VScale(m_alpha, m_v))
      ]_vars

\* C28: whenever step() computes beta and alpha, the denominators are not
\* zero: rho_old and omega of the step before for beta, <r0, v> for alpha.
C28_NoDivisionByZero ==
    [][ pc = "search"
           => /\ ~IsZero(rho_old)
              /\ ~IsZero(m_w)
              /\ ~IsZero(Dot(m_r0, m_v'))
      ]_vars

\* C29: after initIteration and after every completed step, with or without
\* a restart in it, the stored residual is rhs - mat * x for the current
\* iterate, and the error compared with the tolerance is the relative error
\* of that iterate.  Values are exact rationals; a component that a division
\* by zero made non-finite is the same non-finite value on both sides.
C29_ResidualConsistent ==
    pc \in {"loop", "done"}
        => /\ m_res = VSub(rhs, MatVec(mat, x))
           /\ m_error = TrueRelError

\* Two steps completed, one of them with a restart, the iterate moved and
\* finite, the residual not zero
C29_Witness ==
    /\ pc = "done"
    /\ m_num_iter >= 2
    /\ nRestarts >= 1
    /\ x # x0
    /\ \A i \in 1..Len(x) : IsFinite(x[i])
    /\ ~IsZero(Dot(m_res, m_res))
    /\ ~IsZero(m_w)
    /\ m_res = VSub(rhs, MatVec(mat, x))

\* ---- the block partition ------------------------------------------------

\* The number of stored entries of a sparse matrix
NonZeros(M) ==
    Cardinality({rc \in (0..(M.rows - 1)) \X (0..(M.cols - 1)) :
                    Stored(M, rc[1], rc[2])})

\* C26: for an n x n matrix and m distinct kept indices, the kept index
\* dofs[i] gets the number i (the order of the list), the other indices the
\* numbers 0..n-m-1 in ascending order; the blocks are m x m, m x (n-m),
\* (n-m) x m and (n-m) x (n-m); every stored entry is moved into exactly one
\* block, at a place inside that block, and the blocks hold nothing else.
C26_BlockPartition ==
    sc_pc # "idle"
        => LET n == sc_mat.rows
               m == Len(sc_dofs)
               int == InteriorOf(sc_mat, sc_dofs)
               reverse == SchurReverse(sc_dofs, sc_mat.cols)
               B == matrixBlocks(sc_mat, sc_dofs)
           IN  /\ \A i \in 1..m : reverse[sc_dofs[i]] - 1 = i - 1
               /\ \A k \in 1..(n - m) : -reverse[int[k]] - 1 = k - 1
               /\ B.A00.rows = m /\ B.A00.cols = m
               /\ B.A01.rows = m /\ B.A01.cols = n - m
               /\ B.A10.rows = n - m /\ B.A10.cols = m
               /\ B.A11.rows = n - m /\ B.A11.cols = n - m
               /\ \A r, c \in 0..(n - 1) :
                     Stored(sc_mat, r, c)
                        => /\ reverse[r] > 0 => reverse[r] - 1 \in 0..(m - 1)
                           /\ reverse[r] < 0
                                 => -reverse[r] - 1 \in 0..(n - m - 1)
                           /\ reverse[c] > 0 => reverse[c] - 1 \in 0..(m - 1)
                           /\ reverse[c] < 0
                                 => -reverse[c] - 1 \in 0..(n - m - 1)
                           /\ reverse[r] # 0 /\ reverse[c] # 0
               /\ B.A00.val = SubMatrix(sc_mat, sc_dofs, sc_dofs)
               /\ B.A01.val = SubMatrix(sc_mat, sc_dofs, int)
               /\ B.A10.val = SubMatrix(sc_mat, int, sc_dofs)
               /\ B.A11.val = [i \in 1..(n - m) |-> [j \in 1..(n - m) |->
                                  Neg(At(sc_mat, int[i], int[j]))]]
               /\ NonZeros(B.A00) + NonZeros(B.A01) + NonZeros(B.A10)
                     + NonZeros(B.A11) = NonZeros(sc_mat)
               /\ sc_pc \in {"built", "applied"}
                     => /\ sc_op.ops[1].mat = B.A00
                        /\ sc_op.ops[2].ops[1].mat = B.A10
                        /\ sc_op.ops[2].ops[2].mat = B.A11
                        /\ sc_op.ops[2].ops[3].mat = B.A01

\* The operator was built for the nonsymmetric 3 x 3 matrix with the one
\* kept index 1: two other indices, and entries in all four blocks
C26_Witness ==
    /\ sc_pc = "built"
    /\ sc_mat = SpMat(<<<<2, 1, 0>>, <<3, 2, 1>>, <<0, 1, 4>>>>)
    /\ sc_dofs = <<1>>
    /\ matrixBlocks(sc_mat, sc_dofs).A01.val = MRat(<<<<3, 1>>>>)
    /\ matrixBlocks(sc_mat, sc_dofs).A10.val = MRat(<<<<1>>, <<1>>>>)
    /\ matrixBlocks(sc_mat, sc_dofs).A11.val = MRat(<<<<-2, 0>>, <<0, -4>>>>)

\* The kept indices given as 2, 0: the order of the list, not the ascending
\* one, numbers them
C26_WitnessUnsorted ==
    /\ sc_pc = "built"
    /\ sc_mat = SpMat(<<<<2, 1, 0>>, <<3, 2, 1>>, <<0, 1, 4>>>>)
    /\ sc_dofs = <<2, 0>>
    /\ matrixBlocks(sc_mat, sc_dofs).A00.val = MRat(<<<<4, 0>>, <<0, 2>>>>)
    /\ matrixBlocks(sc_mat, sc_dofs).A10.val = MRat(<<<<1, 3>>>>)

\* ---- the dimensions of what restrictToSkeleton returns ------------------

\* The pair (jump, schur) is what restrictToSkeleton returns for source s;
\* the jump matrices are compared first
FromSkeleton(jump, schur, s) ==
    /\ schur.kind = "sum"
    /\ jump = restrictJumpMatrix(s.jm, getSkeletonDofs(s.jm))
    /\ schur = restrictToSkeleton(s.jm, s.mat).localSchurOp

\* C30: for every registered subdomain that restrictToSkeleton made, the
\* columns of the restricted jump matrix, the rows of the Schur operator and
\* the number of skeleton dofs are equal; every column index that
\* setupMultiplicityScaling uses is below the length of the scaling column;
\* and in the operator preconditioner() returns the scaling, the Schur
\* operator and the jump matrix of that subdomain fit together.
C30_SkeletonDimensionsAgree ==
    \A k \in 1..Len(m_jumpMatrices) : \A s \in SkeletonSources :
        FromSkeleton(m_jumpMatrices[k], m_localSchurOps[k], s)
           => LET sz == Rows(m_localSchurOps[k])
              IN  /\ m_jumpMatrices[k].cols = sz
                  /\ sz = Len(getSkeletonDofs(s.jm))
                  /\ Cols(m_localSchurOps[k]) = sz
                  /\ \A r \in 0..(m_jumpMatrices[k].rows - 1),
                        c \in 0..(m_jumpMatrices[k].cols - 1) :
                        Stored(m_jumpMatrices[k], r, c) => c \in 0..(sz - 1)
                  /\ (everScaled /\ k <= Len(m_localScaling))
                        => Len(m_localScaling[k]) = sz
                  /\ (b_prec.kind = "additive" /\ k <= Len(b_prec.ops))
                        => /\ b_prec.transfers[k] = m_jumpMatrices[k]
                           /\ b_prec.ops[k].ops[2] = m_localSchurOps[k]
                           /\ b_prec.ops[k].ops[1].mat.rows = sz
                           /\ b_prec.ops[k].ops[1].mat.cols = sz
                           /\ b_prec.ops[k].ops[3].mat.rows = sz
                           /\ Compatible(b_prec.ops[k])
                           /\ Rows(b_prec.ops[k]) = b_prec.transfers[k].cols
                           /\ Cols(b_prec.ops[k]) = b_prec.transfers[k].cols

\* Two subdomains made by restrictToSkeleton from jump matrices with three
\* columns and one skeleton dof each are registered, scaled, and the
\* preconditioner made of them was applied
C30_Witness ==
    /\ b_call = [op |-> "apply", outcome |-> "ok"]
    /\ Len(m_jumpMatrices) = 2
    /\ m_jumpMatrices[1] # m_jumpMatrices[2]
    /\ \A k \in 1..2 : \E s \in SkeletonSources :
          /\ FromSkeleton(m_jumpMatrices[k], m_localSchurOps[k], s)
          /\ s.jm.cols = 3
          /\ m_jumpMatrices[k].cols = 1
          /\ Len(m_localScaling[k]) = 1
    /\ Len(b_prec.ops) = 2
    /\ ~IsZero(b_out[1])

====
